---- MODULE Spec2Model ----
(***************************************************************************)
(* One-dimensional minimisation methods of app/optim/methods.py and the    *)
(* dispatcher of app/optim/selection.py.                                   *)
(*                                                                         *)
(* Numbers are exact elements (p + q*phi)/d of the field Q(phi), where     *)
(* phi = (1 + sqrt 5)/2 is the constant golden_section computes; every     *)
(* arithmetic operation and comparison of the source is carried out        *)
(* exactly (no rounding).  An objective is a cubic polynomial with integer *)
(* coefficients; its derivatives, when the caller supplies them, are the   *)
(* analytic ones.                                                          *)
(***************************************************************************)
EXTENDS Integers, Sequences, FiniteSets, TLC

\* ------------------------------------------------------------------ bounds
\* largest max_iter a caller passes, and the number of loop iterations of
\* one call that are explored
MaxIter == 3
\* largest sample count a caller passes
MaxSamples == 3
\* largest max_iter a caller of newton_tangent passes, and the number of its
\* passes that are explored
MaxNewtonIter == 6

\* ------------------------------------------------------- exact arithmetic
IAbs(n) == IF n < 0 THEN -n ELSE n

RECURSIVE GCD(_, _)
GCD(m, n) == IF n = 0 THEN m ELSE GCD(n, m % n)

\* the number (p + q*phi)/d in lowest terms, d > 0
Num(p, q, d) ==
    LET g == GCD(GCD(IAbs(p), IAbs(q)), IAbs(d))
        s == IF d < 0 THEN -1 ELSE 1
    IN  [p |-> s * (p \div g), q |-> s * (q \div g), d |-> s * (d \div g)]

Rat(n, d) == Num(n, 0, d)

Z(n) == Num(n, 0, 1)

Neg(u) == [p |-> -u.p, q |-> -u.q, d |-> u.d]

Add(u, v) ==
    LET g == GCD(u.d, v.d)
        mu == v.d \div g
        mv == u.d \div g
    IN  Num(u.p * mu + v.p * mv, u.q * mu + v.q * mv, u.d * mu)

Sub(u, v) == Add(u, Neg(v))

\* phi * phi = phi + 1
Mul(u, v) ==
    LET g1 == GCD(GCD(IAbs(u.p), IAbs(u.q)), v.d)
        g2 == GCD(GCD(IAbs(v.p), IAbs(v.q)), u.d)
        up == u.p \div g1
        uq == u.q \div g1
        vd == v.d \div g1
        vp == v.p \div g2
        vq == v.q \div g2
        ud == u.d \div g2
    IN  Num(up * vp + uq * vq, up * vq + uq * vp + uq * vq, ud * vd)

\* 1/(p + q*phi) = (p + q - q*phi)/(p*p + p*q - q*q)
Inv(u) ==
    IF u.q = 0 THEN Num(u.d, 0, u.p)
    ELSE Num(u.d * (u.p + u.q), -(u.d * u.q), u.p * u.p + u.p * u.q - u.q * u.q)

Div(u, v) == Mul(u, Inv(v))

\* sign of A + B*sqrt(5), by the continued fraction of sqrt(5)
RECURSIVE SignSqrt5(_, _)
SignSqrt5(A, B) ==
    IF A >= 0 /\ B >= 0 THEN (IF A = 0 /\ B = 0 THEN 0 ELSE 1)
    ELSE IF A <= 0 /\ B <= 0 THEN -1
    ELSE IF A < 0 THEN -SignSqrt5(-A, -B)
    ELSE LET n == -B IN
         IF A >= 3 * n THEN 1
         ELSE IF A <= 2 * n THEN -1
         ELSE LET r == A - 2 * n IN SignSqrt5(2 * r - n, r)

Sign(u) == SignSqrt5(2 * u.p + u.q, u.q)

Lt(u, v) == Sign(Sub(u, v)) < 0

Le(u, v) == Sign(Sub(u, v)) <= 0

Gt(u, v) == Lt(v, u)

Abs(u) == IF Sign(u) < 0 THEN Neg(u) ELSE u

IsZero(u) == u.p = 0 /\ u.q = 0

\* ------------------------------------------------------------- objectives
\* an absent optional argument (Python None)
None == [none |-> TRUE]

\* f(x) = c3*x^3 + c2*x^2 + c1*x + c0
Poly(c3, c2, c1, c0) == [c3 |-> c3, c2 |-> c2, c1 |-> c1, c0 |-> c0]

F(f, x) == Add(Mul(Add(Mul(Add(Mul(Z(f.c3), x), Z(f.c2)), x), Z(f.c1)), x), Z(f.c0))

DF(f, x) == Add(Mul(Add(Mul(Z(3 * f.c3), x), Z(2 * f.c2)), x), Z(f.c1))

D2F(f, x) == Add(Mul(Z(6 * f.c3), x), Z(2 * f.c2))

Degree(f) == IF f.c3 # 0 THEN 3 ELSE IF f.c2 # 0 THEN 2 ELSE IF f.c1 # 0 THEN 1 ELSE 0

\* (x-1)^2 + 3,  2(x+1)^2 - 1,  x^3 + 3x,  x^3,  -x
Objectives == {Poly(0, 1, -2, 4), Poly(0, 2, 4, 1), Poly(1, 0, 3, 0), Poly(1, 0, 0, 0),
               Poly(0, 0, -1, 0)}

Interval(lo, hi) == [a |-> Z(lo), b |-> Z(hi)]

BoundsSet == {Interval(0, 2), Interval(2, 0), Interval(1, 1)}

TolSet == {Z(0), Rat(1, 4), Z(1), Z(2)}

DeltaSet == {None, Z(0), Rat(1, 4), Z(4)}

\* ------------------------------------------------------------------ state
VARIABLES
    pc,        \* "idle", the method whose loop is running, "returned", "raised"
    entry,     \* the function the caller called
    args,      \* the caller's arguments
    par,       \* the arguments of the running method
    invoked,   \* the method implementations entered during this call
    evals,     \* how often f, df and d2f have been evaluated during this call
    loc,       \* the local variables of the running method
    history,   \* the local list history of the running method
    error,     \* the kind of the exception raised, "" if none
    result     \* the OptimizationResult returned, None if none

vars == <<pc, entry, args, par, invoked, evals, loc, history, error, result>>

NoArgs ==
    [f |-> None, bounds |-> None, tol |-> None, delta |-> None, max_iter |-> None,
     samples |-> None, df |-> FALSE, d2f |-> FALSE, x0 |-> None, x1 |-> None,
     h_fd |-> None, prefer |-> "None"]

NoLoc ==
    [a |-> None, b |-> None, delta |-> None, x1 |-> None, x2 |-> None,
     f1 |-> None, f2 |-> None, iterations |-> 0, xs |-> <<>>,
     x |-> None, x_prev |-> None, x_curr |-> None, g_prev |-> None, g_curr |-> None,
     k |-> 0, stop |-> FALSE]

NoEvals == [f |-> 0, df |-> 0, d2f |-> 0]

\* a sample count n (samples is an Optional[int])
Count(n) == [n |-> n]

OptimizationResult(x_min, f_min, iterations, hist, method) ==
    [x_min |-> x_min, f_min |-> f_min, iterations |-> iterations,
     history |-> hist, method |-> method]

Init ==
    /\ pc = "idle"
    /\ entry = "none"
    /\ args = NoArgs
    /\ par = NoArgs
    /\ invoked = <<>>
    /\ evals = NoEvals
    /\ loc = NoLoc
    /\ history = <<>>
    /\ error = ""
    /\ result = None

\* raise: the call ends with an exception and no result
Raise(kind) ==
    /\ pc' = "raised"
    /\ error' = kind
    /\ result' = None

\* ---------------------------------------------------------- passive_search
PassiveValidate(a, b, samples) ==
    IF ~Lt(a, b) THEN "InvalidBounds"
    ELSE IF samples < 2 THEN "InvalidSampleCount"
    ELSE "ok"

\* np.linspace(a, b, samples, endpoint=False)[i]
LinspaceOpen(a, b, samples, i) == Add(a, Mul(Z(i), Div(Sub(b, a), Z(samples))))

\* np.linspace(a, b, samples)[i], i = 0 .. samples-1
Linspace(a, b, samples, i) == Add(a, Mul(Z(i), Div(Sub(b, a), Z(samples - 1))))

\* the scan that keeps the last index holding the minimum
RECURSIVE ArgMinScanLast(_, _, _)
ArgMinScanLast(f_vals, i, best) ==
    IF i > Len(f_vals) THEN best
    ELSE ArgMinScanLast(f_vals, i + 1, IF Le(f_vals[i], f_vals[best]) THEN i ELSE best)

\* np.argmin: the first index holding the minimum
RECURSIVE ArgMinScan(_, _, _)
ArgMinScan(f_vals, i, best) ==
    IF i > Len(f_vals) THEN best
    ELSE ArgMinScan(f_vals, i + 1, IF Lt(f_vals[i], f_vals[best]) THEN i ELSE best)

ArgMin(f_vals) == ArgMinScan(f_vals, 2, 1)

\* passive_search(f, bounds, samples) up to the loop
EnterPassive(f, bounds, samples) ==
    LET v == PassiveValidate(bounds.a, bounds.b, samples) IN
    /\ invoked' = Append(invoked, "passive_search")
    /\ UNCHANGED evals
    /\ par' = [NoArgs EXCEPT !.f = f, !.bounds = bounds, !.samples = Count(samples)]
    /\ history' = <<>>
    /\ IF v # "ok"
         THEN /\ Raise(v)
              /\ loc' = NoLoc
         ELSE /\ pc' = "passive_search"
              /\ loc' = [NoLoc EXCEPT !.a = bounds.a, !.b = bounds.b,
                            !.xs = [i \in 1..samples |->
                                      Linspace(bounds.a, bounds.b, samples, i - 1)]]
              /\ UNCHANGED <<error, result>>

CallPassive(f, bounds, samples) ==
    /\ pc = "idle"
    /\ entry' = "passive_search"
    /\ args' = [NoArgs EXCEPT !.f = f, !.bounds = bounds, !.samples = Count(samples)]
    /\ EnterPassive(f, bounds, samples)

\* one pass of "for x in xs"
PassiveStep ==
    /\ pc = "passive_search"
    /\ Len(history) < Len(loc.xs)
    /\ LET x == loc.xs[Len(history) + 1]
           fx == F(par.f, x)
       IN  /\ history' = Append(history, [x |-> x, f |-> fx])
           /\ evals' = [evals EXCEPT !.f = @ + 1]
    /\ UNCHANGED <<pc, entry, args, par, invoked, loc, error, result>>

PassiveReturn ==
    /\ pc = "passive_search"
    /\ Len(history) = Len(loc.xs)
    /\ LET f_vals == [i \in 1..Len(history) |-> history[i].f]
           idx == ArgMin(f_vals)
       IN  result' = OptimizationResult(loc.xs[idx], f_vals[idx], par.samples.n,
                                        history, "passive_search")
    /\ pc' = "returned"
    /\ UNCHANGED <<entry, args, par, invoked, evals, loc, history, error>>

\* --------------------------------------------------------------- dichotomy
\* the validation with "tol < 0" in place of "tol <= 0"
DichotomyValidateStrict(a, b, tol, delta) ==
    IF ~Lt(a, b) THEN "InvalidBounds"
    ELSE IF Sign(tol) < 0 THEN "InvalidTolerance"
    ELSE IF Sign(IF delta = None THEN Div(tol, Z(2)) ELSE delta) <= 0 THEN "InvalidDelta"
    ELSE "ok"

DichotomyValidate(a, b, tol, delta) ==
    IF ~Lt(a, b) THEN "InvalidBounds"
    ELSE IF Sign(tol) <= 0 THEN "InvalidTolerance"
    ELSE IF Sign(IF delta = None THEN Div(tol, Z(2)) ELSE delta) <= 0 THEN "InvalidDelta"
    ELSE "ok"

\* the comparison with <= in place of <
DichotomyMovesBOnTie(f1, f2) == Le(f1, f2)

\* the comparison the other way round
DichotomyMovesBFlipped(f1, f2) == Lt(f2, f1)

\* "if f1 < f2: b = x2", else "a = x1"
DichotomyMovesB(f1, f2) == Lt(f1, f2)

EnterDichotomy(f, bounds, tol, delta, max_iter) ==
    LET v == DichotomyValidate(bounds.a, bounds.b, tol, delta) IN
    /\ invoked' = Append(invoked, "dichotomy")
    /\ UNCHANGED evals
    /\ par' = [NoArgs EXCEPT !.f = f, !.bounds = bounds, !.tol = tol,
                             !.delta = delta, !.max_iter = max_iter]
    /\ history' = <<>>
    /\ IF v # "ok"
         THEN /\ Raise(v)
              /\ loc' = NoLoc
         ELSE /\ pc' = "dichotomy"
              /\ loc' = [NoLoc EXCEPT !.a = bounds.a, !.b = bounds.b,
                            !.delta = IF delta = None THEN Div(tol, Z(2)) ELSE delta]
              /\ UNCHANGED <<error, result>>

CallDichotomy(f, bounds, tol, delta, max_iter) ==
    /\ pc = "idle"
    /\ entry' = "dichotomy"
    /\ args' = [NoArgs EXCEPT !.f = f, !.bounds = bounds, !.tol = tol,
                              !.delta = delta, !.max_iter = max_iter]
    /\ EnterDichotomy(f, bounds, tol, delta, max_iter)

\* the loop condition that allows one step more than max_iter
IntervalLoopGuardInclusive ==
    Gt(Sub(loc.b, loc.a), par.tol) /\ loc.iterations <= par.max_iter

\* the loop condition with the half-width (b - a)/2 compared to tol
IntervalLoopGuardHalfWidth ==
    Gt(Div(Sub(loc.b, loc.a), Z(2)), par.tol) /\ loc.iterations < par.max_iter

\* "while (b - a) > tol and iterations < max_iter"
IntervalLoopGuard == Gt(Sub(loc.b, loc.a), par.tol) /\ loc.iterations < par.max_iter

\* the probes with half the offset
DichotomyProbesHalfDelta(a, b, delta) ==
    LET m == Div(Add(a, b), Z(2))
    IN  [x1 |-> Sub(m, Div(delta, Z(2))), x2 |-> Add(m, Div(delta, Z(2)))]

\* "m = (a + b) / 2.0; x1 = m - delta; x2 = m + delta"
DichotomyProbes(a, b, delta) ==
    LET m == Div(Add(a, b), Z(2))
    IN  [x1 |-> Sub(m, delta), x2 |-> Add(m, delta)]

DichotomyStep ==
    /\ pc = "dichotomy"
    /\ IntervalLoopGuard
    /\ loc.iterations < MaxIter
    /\ LET x1 == DichotomyProbes(loc.a, loc.b, loc.delta).x1
           x2 == DichotomyProbes(loc.a, loc.b, loc.delta).x2
           f1 == F(par.f, x1)
           f2 == F(par.f, x2)
       IN  /\ history' = Append(history, [a |-> loc.a, b |-> loc.b, x1 |-> x1,
                                          x2 |-> x2, f1 |-> f1, f2 |-> f2])
           /\ loc' = [loc EXCEPT !.x1 = x1, !.x2 = x2, !.f1 = f1, !.f2 = f2,
                         !.b = IF DichotomyMovesB(f1, f2) THEN x2 ELSE @,
                         !.a = IF DichotomyMovesB(f1, f2) THEN @ ELSE x1,
                         !.iterations = @ + 1]
           /\ evals' = [evals EXCEPT !.f = @ + 2]
    /\ UNCHANGED <<pc, entry, args, par, invoked, error, result>>

\* the code after the loop of dichotomy and of golden_section
IntervalReturn(method) ==
    /\ pc = method
    /\ ~IntervalLoopGuard
    /\ LET x_min == Div(Add(loc.a, loc.b), Z(2))
           f_min == F(par.f, x_min)
           hist == Append(history, [a |-> loc.a, b |-> loc.b, x |-> x_min, f |-> f_min])
       IN  /\ history' = hist
           /\ result' = OptimizationResult(x_min, f_min, loc.iterations, hist, method)
    /\ evals' = [evals EXCEPT !.f = @ + 1]
    /\ pc' = "returned"
    /\ UNCHANGED <<entry, args, par, invoked, loc, error>>

DichotomyReturn == IntervalReturn("dichotomy")

\* ---------------------------------------------------------- golden_section
phi == Div(Add(Z(1), Num(-1, 2, 1)), Z(2))

\* the probes at the midpoint
resphiHalf == Rat(1, 2)

\* the larger golden fraction phi - 1 in place of 2 - phi
resphiSwapped == Sub(phi, Z(1))

\* "resphi = 2 - phi"
resphi == Sub(Z(2), phi)

GoldenValidate(a, b, tol) ==
    IF ~Lt(a, b) THEN "InvalidBounds"
    ELSE IF Sign(tol) <= 0 THEN "InvalidTolerance"
    ELSE "ok"

EnterGolden(f, bounds, tol, max_iter) ==
    LET v == GoldenValidate(bounds.a, bounds.b, tol)
        a == bounds.a
        b == bounds.b
        x1 == Add(a, Mul(resphi, Sub(b, a)))
        x2 == Sub(b, Mul(resphi, Sub(b, a)))
    IN
    /\ invoked' = Append(invoked, "golden_section")
    /\ par' = [NoArgs EXCEPT !.f = f, !.bounds = bounds, !.tol = tol,
                             !.max_iter = max_iter]
    /\ history' = <<>>
    /\ IF v # "ok"
         THEN /\ Raise(v)
              /\ loc' = NoLoc
              /\ UNCHANGED evals
         ELSE /\ pc' = "golden_section"
              /\ loc' = [NoLoc EXCEPT !.a = a, !.b = b, !.x1 = x1, !.x2 = x2,
                                      !.f1 = F(f, x1), !.f2 = F(f, x2)]
              /\ evals' = [evals EXCEPT !.f = @ + 2]
              /\ UNCHANGED <<error, result>>

CallGolden(f, bounds, tol, max_iter) ==
    /\ pc = "idle"
    /\ entry' = "golden_section"
    /\ args' = [NoArgs EXCEPT !.f = f, !.bounds = bounds, !.tol = tol,
                              !.max_iter = max_iter]
    /\ EnterGolden(f, bounds, tol, max_iter)

GoldenStep ==
    /\ pc = "golden_section"
    /\ IntervalLoopGuard
    /\ loc.iterations < MaxIter
    /\ history' = Append(history, [a |-> loc.a, b |-> loc.b, x1 |-> loc.x1,
                                   x2 |-> loc.x2, f1 |-> loc.f1, f2 |-> loc.f2])
    /\ IF Lt(loc.f1, loc.f2)
         THEN LET b == loc.x2
                  x1 == Add(loc.a, Mul(resphi, Sub(b, loc.a)))
              IN  loc' = [loc EXCEPT !.b = b, !.x2 = loc.x1, !.f2 = loc.f1,
                                     !.x1 = x1, !.f1 = F(par.f, x1),
                                     !.iterations = @ + 1]
         ELSE LET a == loc.x1
                  x2 == Sub(loc.b, Mul(resphi, Sub(loc.b, a)))
              IN  loc' = [loc EXCEPT !.a = a, !.x1 = loc.x2, !.f1 = loc.f2,
                                     !.x2 = x2, !.f2 = F(par.f, x2),
                                     !.iterations = @ + 1]
    /\ evals' = [evals EXCEPT !.f = @ + 1]
    /\ UNCHANGED <<pc, entry, args, par, invoked, error, result>>

GoldenReturn == IntervalReturn("golden_section")

\* ---------------------------------------------------------- newton_tangent
\* the validation that lets an absent d2f through
NewtonValidateNone(d2f) == "ok"

NewtonValidate(d2f) == IF ~d2f THEN "MissingSecondDerivative" ELSE "ok"

\* the tests of one pass with the curvature test first
NewtonBranchCurvatureFirst(g, h, tol) ==
    IF IsZero(h) THEN "raise"
    ELSE IF Lt(Abs(g), tol) THEN "break"
    ELSE "step"

\* the tests of one pass, in the order of the code: "if abs(g) < tol: break",
\* then "if h == 0: raise", else the step
NewtonBranch(g, h, tol) ==
    IF Lt(Abs(g), tol) THEN "break"
    ELSE IF IsZero(h) THEN "raise"
    ELSE "step"

EnterNewton(f, df, d2f, x0, tol, max_iter) ==
    /\ invoked' = Append(invoked, "newton_tangent")
    /\ par' = [NoArgs EXCEPT !.f = f, !.df = df, !.d2f = d2f, !.x0 = x0, !.tol = tol,
                             !.max_iter = max_iter]
    /\ history' = <<>>
    /\ UNCHANGED evals
    /\ IF NewtonValidate(d2f) # "ok"
         THEN /\ Raise(NewtonValidate(d2f))
              /\ loc' = NoLoc
         ELSE /\ pc' = "newton_tangent"
              /\ loc' = [NoLoc EXCEPT !.x = x0]
              /\ UNCHANGED <<error, result>>

CallNewton(f, d2f, x0, tol, max_iter) ==
    /\ pc = "idle"
    /\ entry' = "newton_tangent"
    /\ args' = [NoArgs EXCEPT !.f = f, !.df = TRUE, !.d2f = d2f, !.x0 = x0, !.tol = tol,
                              !.max_iter = max_iter]
    /\ EnterNewton(f, TRUE, d2f, x0, tol, max_iter)

\* the loop that makes one pass more than max_iter
ForLoopGuardInclusive == ~loc.stop /\ loc.k <= par.max_iter

\* "for _ in range(max_iter)" with its breaks, in newton_tangent and in
\* secant_on_gradient
ForLoopGuard == ~loc.stop /\ loc.k < par.max_iter

\* the step with the sign of the correction reversed
NewtonNextReversed(x, g, h) == Add(x, Div(g, h))

\* "step = g / h; x_new = x - step"
NewtonNext(x, g, h) == Sub(x, Div(g, h))

\* the step-size break taken before the assignment x = x_new
NewtonAfterStepKeep(x, x_new, tol) ==
    IF Lt(Abs(Sub(x_new, x)), tol) THEN x ELSE x_new

\* "if abs(x_new - x) < tol: x = x_new; break" and "x = x_new": the iterate
\* becomes x_new on both ways out of the pass
NewtonAfterStep(x, x_new, tol) == x_new

\* one pass of "for _ in range(max_iter)"
NewtonStep ==
    /\ pc = "newton_tangent"
    /\ ForLoopGuard
    /\ loc.k < MaxNewtonIter
    /\ LET x == loc.x
           g == DF(par.f, x)
           h == D2F(par.f, x)
       IN  /\ history' = Append(history, [x |-> x, df |-> g, d2f |-> h, f |-> F(par.f, x)])
           /\ evals' = [f |-> evals.f + 1, df |-> evals.df + 1, d2f |-> evals.d2f + 1]
           /\ IF NewtonBranch(g, h, par.tol) = "break"
                THEN /\ loc' = [loc EXCEPT !.stop = TRUE, !.k = @ + 1]
                     /\ UNCHANGED <<pc, error, result>>
                ELSE IF NewtonBranch(g, h, par.tol) = "raise"
                THEN /\ Raise("DegenerateCurvature")
                     /\ loc' = [loc EXCEPT !.k = @ + 1]
                ELSE LET x_new == NewtonNext(x, g, h)
                     IN  /\ loc' = [loc EXCEPT !.x = NewtonAfterStep(x, x_new, par.tol),
                                       !.k = @ + 1,
                                       !.stop = Lt(Abs(Sub(x_new, x)), par.tol)]
                         /\ UNCHANGED <<pc, error, result>>
    /\ UNCHANGED <<entry, args, par, invoked>>

NewtonReturn ==
    /\ pc = "newton_tangent"
    /\ ~ForLoopGuard
    /\ result' = OptimizationResult(loc.x, F(par.f, loc.x), Len(history), history,
                                    "newton_tangent")
    /\ evals' = [evals EXCEPT !.f = @ + 1]
    /\ pc' = "returned"
    /\ UNCHANGED <<entry, args, par, invoked, loc, history, error>>

\* ------------------------------------------------------ secant_on_gradient
\* the default of h_fd, 1e-6
H_FD == Rat(1, 1000000)

HfdSet == {H_FD, Rat(1, 2)}

\* grad(x) with the forward difference (f(x + h) - f(x)) / h
gradForward(f, df, h_fd, x) ==
    IF df THEN DF(f, x)
    ELSE Div(Sub(F(f, Add(x, h_fd)), F(f, x)), h_fd)

\* grad(x) of secant_on_gradient
grad(f, df, h_fd, x) ==
    IF df THEN DF(f, x)
    ELSE Div(Sub(F(f, Add(x, h_fd)), F(f, Sub(x, h_fd))), Mul(Z(2), h_fd))

\* the evaluations one call of grad makes
GradEvals(df, e) ==
    IF df THEN [e EXCEPT !.df = @ + 1] ELSE [e EXCEPT !.f = @ + 2]

\* "abs(g_curr - g_prev) < 1e-20": a difference of two of the model's
\* rationals is either zero or far above 1e-20
DenominatorVanishes(g_curr, g_prev) == IsZero(Sub(g_curr, g_prev))

\* the runs whose numerators and denominators stay in the integer range of
\* the checker: the gradient is affine in x (the secant step is then exact),
\* and f(x + h_fd) needs no second power of 1e-6
SecantFits(f, df, h_fd) ==
    \/ Degree(f) <= 1
    \/ Degree(f) = 2 /\ (df \/ h_fd.d <= 4)

EnterSecant(f, df, x0, x1, tol, max_iter, h_fd) ==
    LET x_prev == x0
        x_curr == x1
        g_prev == grad(f, df, h_fd, x_prev)
        g_curr == grad(f, df, h_fd, x_curr)
    IN
    /\ SecantFits(f, df, h_fd)
    /\ invoked' = Append(invoked, "secant_on_gradient")
    /\ par' = [NoArgs EXCEPT !.f = f, !.df = df, !.x0 = x0, !.x1 = x1, !.tol = tol,
                             !.max_iter = max_iter, !.h_fd = h_fd]
    /\ history' = <<[x |-> x_prev, g |-> g_prev, f |-> F(f, x_prev)],
                    [x |-> x_curr, g |-> g_curr, f |-> F(f, x_curr)]>>
    /\ evals' = [GradEvals(df, GradEvals(df, evals)) EXCEPT !.f = @ + 2]
    /\ pc' = "secant_on_gradient"
    /\ loc' = [NoLoc EXCEPT !.x_prev = x_prev, !.x_curr = x_curr,
                            !.g_prev = g_prev, !.g_curr = g_curr]
    /\ UNCHANGED <<error, result>>

CallSecant(f, df, x0, x1, tol, max_iter, h_fd) ==
    /\ pc = "idle"
    /\ entry' = "secant_on_gradient"
    /\ args' = [NoArgs EXCEPT !.f = f, !.df = df, !.x0 = x0, !.x1 = x1, !.tol = tol,
                              !.max_iter = max_iter, !.h_fd = h_fd]
    /\ EnterSecant(f, df, x0, x1, tol, max_iter, h_fd)

\* one pass of "for _ in range(max_iter)"
SecantStep ==
    /\ pc = "secant_on_gradient"
    /\ ForLoopGuard
    /\ loc.k < MaxIter
    /\ IF DenominatorVanishes(loc.g_curr, loc.g_prev)
         THEN /\ loc' = [loc EXCEPT !.stop = TRUE, !.k = @ + 1]
              /\ UNCHANGED <<history, evals>>
         ELSE LET x_next == Sub(loc.x_curr,
                                Div(Mul(loc.g_curr, Sub(loc.x_curr, loc.x_prev)),
                                    Sub(loc.g_curr, loc.g_prev)))
                  g_next == grad(par.f, par.df, par.h_fd, x_next)
              IN  /\ loc' = [loc EXCEPT !.x_prev = loc.x_curr, !.g_prev = loc.g_curr,
                                !.x_curr = x_next, !.g_curr = g_next, !.k = @ + 1,
                                !.stop = \/ Lt(Abs(Sub(x_next, loc.x_curr)), par.tol)
                                         \/ Lt(Abs(g_next), par.tol)]
                  /\ history' = Append(history, [x |-> x_next, g |-> g_next,
                                                 f |-> F(par.f, x_next)])
                  /\ evals' = [GradEvals(par.df, evals) EXCEPT !.f = @ + 1]
    /\ UNCHANGED <<pc, entry, args, par, invoked, error, result>>

\* the count without the two seed records
SecantIterationsSteps(hist) == Len(hist) - 2

\* "iterations=len(history)"
SecantIterations(hist) == Len(hist)

SecantReturn ==
    /\ pc = "secant_on_gradient"
    /\ ~ForLoopGuard
    /\ result' = OptimizationResult(loc.x_curr, F(par.f, loc.x_curr),
                                    SecantIterations(history),
                                    history, "secant_on_gradient")
    /\ evals' = [evals EXCEPT !.f = @ + 1]
    /\ pc' = "returned"
    /\ UNCHANGED <<entry, args, par, invoked, loc, history, error>>

X0Set == {Z(0), Z(1)}

X1Set == {Z(1), Z(3)}

\* ----------------------------------------------------- auto_select_and_run
\* the defaults of max_iter in dichotomy and golden_section, newton_tangent,
\* secant_on_gradient, and of samples in forced passive mode
INTERVAL_MAX_ITER == 10000

NEWTON_MAX_ITER == 100

SECANT_MAX_ITER == 200

DEFAULT_SAMPLES == 50

\* str.lower on the preferences the callers pass
Lower(prefer) ==
    CASE prefer = "Golden" -> "golden"
      [] prefer = "NEWTON" -> "newton"
      [] OTHER -> prefer

PreferSet == {"None", "passive", "dichotomy", "golden", "newton", "secant",
              "Golden", "NEWTON", "simplex"}

\* the forced branch with the golden branch copied into the dichotomy branch
ForcedChoiceCopied(key, bounds, df, d2f, x0, x1) ==
    CASE key \in {"passive"} ->
            IF bounds = None THEN "InsufficientParameters" ELSE "passive_search"
      [] key \in {"dichotomy", "golden"} ->
            IF bounds = None THEN "InsufficientParameters" ELSE "golden_section"
      [] key = "newton" ->
            IF ~d2f \/ ~df \/ x0 = None THEN "InsufficientParameters"
            ELSE "newton_tangent"
      [] key = "secant" ->
            IF x0 = None \/ x1 = None THEN "InsufficientParameters"
            ELSE "secant_on_gradient"
      [] OTHER -> "UnknownPreference"

\* the forced branch: the method named by key, or the failure
\* ("not bounds" is true of None only: a pair of floats is a non-empty tuple)
ForcedChoice(key, bounds, df, d2f, x0, x1) ==
    CASE key = "passive" ->
            IF bounds = None THEN "InsufficientParameters" ELSE "passive_search"
      [] key = "dichotomy" ->
            IF bounds = None THEN "InsufficientParameters" ELSE "dichotomy"
      [] key = "golden" ->
            IF bounds = None THEN "InsufficientParameters" ELSE "golden_section"
      [] key = "newton" ->
            IF ~d2f \/ ~df \/ x0 = None THEN "InsufficientParameters"
            ELSE "newton_tangent"
      [] key = "secant" ->
            IF x0 = None \/ x1 = None THEN "InsufficientParameters"
            ELSE "secant_on_gradient"
      [] OTHER -> "UnknownPreference"

\* the automatic branch with "if x0" in place of "x0 is not None"
AutoChoiceTruthy(bounds, samples, df, d2f, x0, x1) ==
    LET has_x0 == x0 # None /\ ~IsZero(x0) IN
    IF d2f /\ df /\ has_x0 THEN "newton_tangent"
    ELSE IF has_x0 /\ x1 # None THEN "secant_on_gradient"
    ELSE IF bounds # None THEN
        (IF samples # None THEN "passive_search" ELSE "golden_section")
    ELSE "InsufficientData"

\* the automatic branch
AutoChoice(bounds, samples, df, d2f, x0, x1) ==
    IF d2f /\ df /\ x0 # None THEN "newton_tangent"
    ELSE IF x0 # None /\ x1 # None THEN "secant_on_gradient"
    ELSE IF bounds # None THEN
        (IF samples # None THEN "passive_search" ELSE "golden_section")
    ELSE "InsufficientData"

\* "if not samples: samples = 50" of the forced passive branch
ForcedSamples(samples) ==
    IF samples = None \/ samples.n = 0 THEN DEFAULT_SAMPLES ELSE samples.n

Methods == {"passive_search", "dichotomy", "golden_section", "newton_tangent",
            "secant_on_gradient"}

\* the call the dispatcher forwards to
Forward(choice, forced, f, bounds, tol, samples, df, d2f, x0, x1) ==
    CASE choice = "passive_search" ->
            EnterPassive(f, bounds, IF forced THEN ForcedSamples(samples) ELSE samples.n)
      [] choice = "dichotomy" ->
            EnterDichotomy(f, bounds, tol, None, INTERVAL_MAX_ITER)
      [] choice = "golden_section" ->
            EnterGolden(f, bounds, tol, INTERVAL_MAX_ITER)
      [] choice = "newton_tangent" ->
            EnterNewton(f, df, d2f, x0, tol, NEWTON_MAX_ITER)
      [] choice = "secant_on_gradient" ->
            EnterSecant(f, df, x0, x1, tol, SECANT_MAX_ITER, H_FD)
      [] OTHER ->
            /\ Raise(choice)
            /\ par' = NoArgs
            /\ loc' = NoLoc
            /\ history' = <<>>
            /\ UNCHANGED <<invoked, evals>>

CallAuto(f, bounds, tol, samples, df, d2f, x0, x1, prefer) ==
    /\ pc = "idle"
    /\ entry' = "auto_select_and_run"
    /\ args' = [NoArgs EXCEPT !.f = f, !.bounds = bounds, !.tol = tol, !.samples = samples,
                              !.df = df, !.d2f = d2f, !.x0 = x0, !.x1 = x1,
                              !.prefer = prefer]
    /\ IF prefer # "None"
         THEN Forward(ForcedChoice(Lower(prefer), bounds, df, d2f, x0, x1), TRUE,
                      f, bounds, tol, samples, df, d2f, x0, x1)
         ELSE Forward(AutoChoice(bounds, samples, df, d2f, x0, x1), FALSE,
                      f, bounds, tol, samples, df, d2f, x0, x1)

\* the arguments the callers of the dispatcher pass
AutoObjectives == {Poly(0, 1, -2, 4), Poly(0, 0, -1, 0)}

AutoBounds == {None, Interval(0, 2)}

AutoTol == {Z(1)}

AutoSamples == {None} \cup {Count(n) : n \in {0, 1, MaxSamples}}

AutoX0 == {None, Z(0), Z(1)}

AutoX1 == {None, Z(3)}

\* ------------------------------------------------------------ the caller
\* the caller takes the result or the exception; the next call starts clean
Reset ==
    /\ pc \in {"returned", "raised"}
    /\ pc' = "idle"
    /\ entry' = "none"
    /\ args' = NoArgs
    /\ par' = NoArgs
    /\ invoked' = <<>>
    /\ evals' = NoEvals
    /\ loc' = NoLoc
    /\ history' = <<>>
    /\ error' = ""
    /\ result' = None

Next ==
    \/ \E f \in Objectives, bounds \in BoundsSet, samples \in 0..MaxSamples :
          CallPassive(f, bounds, samples)
    \/ PassiveStep
    \/ PassiveReturn
    \/ \E f \in Objectives, bounds \in BoundsSet, tol \in TolSet, delta \in DeltaSet,
          max_iter \in 0..MaxIter :
          CallDichotomy(f, bounds, tol, delta, max_iter)
    \/ DichotomyStep
    \/ DichotomyReturn
    \/ \E f \in Objectives, bounds \in BoundsSet, tol \in TolSet, max_iter \in 0..MaxIter :
          CallGolden(f, bounds, tol, max_iter)
    \/ GoldenStep
    \/ GoldenReturn
    \/ \E f \in Objectives, d2f \in BOOLEAN, x0 \in X0Set, tol \in TolSet,
          max_iter \in 0..MaxNewtonIter :
          CallNewton(f, d2f, x0, tol, max_iter)
    \/ NewtonStep
    \/ NewtonReturn
    \/ \E f \in Objectives, df \in BOOLEAN, x0 \in X0Set, x1 \in X1Set, tol \in TolSet,
          max_iter \in 0..MaxIter, h_fd \in HfdSet :
          CallSecant(f, df, x0, x1, tol, max_iter, h_fd)
    \/ SecantStep
    \/ SecantReturn
    \/ \E f \in AutoObjectives, bounds \in AutoBounds, tol \in AutoTol,
          samples \in AutoSamples, df \in BOOLEAN, d2f \in BOOLEAN,
          x0 \in AutoX0, x1 \in AutoX1, prefer \in PreferSet :
          CallAuto(f, bounds, tol, samples, df, d2f, x0, x1, prefer)
    \/ Reset

Spec == Init /\ [][Next]_vars

\* ================================================================ claims
Last(seq) == seq[Len(seq)]

\* the method implementation that is running or has run in this call
Running(method) == invoked # <<>> /\ Last(invoked) = method

Returned(method) == pc = "returned" /\ Running(method)

AutoCall == entry = "auto_select_and_run" /\ args.prefer = "None"

\* the call failed in the dispatcher: no method entered, nothing evaluated
FailedInDispatcher(kind) ==
    /\ pc = "raised"
    /\ error = kind
    /\ invoked = <<>>
    /\ evals = NoEvals
    /\ result = None

\* C1: with prefer unset the dispatcher picks by presence of the inputs in
\* the order Newton (df, d2f, x0), secant (x0, x1), passive (bounds,
\* samples), golden section (bounds), else fails with InsufficientData
\* without entering a method; one method is entered per call that selects.
C1_AutoPriority ==
    AutoCall =>
        LET newton == args.df /\ args.d2f /\ args.x0 # None
            secant == args.x0 # None /\ args.x1 # None
            passive == args.bounds # None /\ args.samples # None
            golden == args.bounds # None
        IN  /\ newton => invoked = <<"newton_tangent">>
            /\ ~newton /\ secant => invoked = <<"secant_on_gradient">>
            /\ ~newton /\ ~secant /\ passive => invoked = <<"passive_search">>
            /\ ~newton /\ ~secant /\ ~passive /\ golden => invoked = <<"golden_section">>
            /\ ~newton /\ ~secant /\ ~passive /\ ~golden =>
                   FailedInDispatcher("InsufficientData")
            /\ result # None => Len(invoked) = 1 /\ result.method = invoked[1]

\* x0 = 0.0 with both derivatives: Newton ran and returned
C1_Witness ==
    /\ AutoCall
    /\ args.x0 = Z(0)
    /\ args.x1 # None
    /\ args.bounds # None
    /\ pc = "returned"
    /\ result.method = "newton_tangent"

\* C2: with prefer naming a method, the method entered is the named one when
\* its required inputs are present, whatever else is supplied; otherwise the
\* call fails with InsufficientParameters in the dispatcher; an unrecognised
\* prefer fails as well.
C2_ForcedChoice ==
    entry = "auto_select_and_run" /\ args.prefer # "None" =>
        LET key == args.prefer
            named == CASE key = "passive" -> "passive_search"
                       [] key = "dichotomy" -> "dichotomy"
                       [] key = "golden" -> "golden_section"
                       [] key = "newton" -> "newton_tangent"
                       [] key = "secant" -> "secant_on_gradient"
                       [] OTHER -> "none"
            required == CASE key \in {"passive", "dichotomy", "golden"} ->
                                args.bounds # None
                          [] key = "newton" -> args.df /\ args.d2f /\ args.x0 # None
                          [] key = "secant" -> args.x0 # None /\ args.x1 # None
                          [] OTHER -> FALSE
        IN  /\ named # "none" /\ required => invoked = <<named>>
            /\ named # "none" /\ ~required => FailedInDispatcher("InsufficientParameters")
            /\ key = "simplex" => pc = "raised" /\ invoked = <<>> /\ result = None

\* dichotomy is forced although the inputs of Newton and of secant are there
C2_Witness ==
    /\ entry = "auto_select_and_run"
    /\ args.prefer = "dichotomy"
    /\ args.df /\ args.d2f /\ args.x0 # None /\ args.x1 # None /\ args.samples # None
    /\ invoked = <<"dichotomy">>
    /\ Len(history) > 0

\* C3: the x_min an interval method returns lies in the original [a, b].
C3_XminWithinBounds ==
    pc = "returned" /\ result.method \in {"passive_search", "dichotomy", "golden_section"} =>
        Le(par.bounds.a, result.x_min) /\ Le(result.x_min, par.bounds.b)

\* C4: a run of dichotomy or golden_section that ends with iterations below
\* max_iter has a final record whose interval is no wider than tol.
C4_FinalWidth ==
    pc = "returned" /\ result.method \in {"dichotomy", "golden_section"}
       /\ result.iterations < par.max_iter =>
        LET last == Last(result.history) IN Le(Sub(last.b, last.a), par.tol)

\* dichotomy narrowed at least once and stopped within the budget
C4_Witness ==
    /\ pc = "returned"
    /\ result.method = "dichotomy"
    /\ result.iterations >= 1
    /\ result.iterations < par.max_iter

\* a dichotomy step has just run on a tie of the two probe values
DichotomyTieStep ==
    /\ pc = "dichotomy"
    /\ Len(history) > 0
    /\ Last(history).f1 = Last(history).f2

\* C5 as stated: on a tie the step sets b = x2 and leaves a unchanged.
C5_TieMovesB ==
    DichotomyTieStep => loc.b = Last(history).x2 /\ loc.a = Last(history).a

\* C5 amended: on a tie the step sets a = x1 and leaves b unchanged (the
\* part of the interval left of x1 is discarded).
C5_TieMovesA ==
    DichotomyTieStep => loc.a = Last(history).x1 /\ loc.b = Last(history).b

C5_Witness == DichotomyTieStep /\ Lt(Last(history).a, loc.a)

\* C6: passive_search with N samples evaluates f at the N points
\* a + i*(b - a)/(N - 1), in increasing order from a to b, one record each,
\* and returns iterations = N.
C6_PassiveGrid ==
    Running("passive_search") /\ pc # "raised" =>
        LET N == par.samples.n
            a == par.bounds.a
            b == par.bounds.b
        IN  /\ N >= 2
            /\ Len(history) <= N
            /\ evals.f = Len(history)
            /\ \A i \in 1..Len(history) :
                  /\ Mul(Z(N - 1), Sub(history[i].x, a)) = Mul(Z(i - 1), Sub(b, a))
                  /\ history[i].f = F(par.f, history[i].x)
                  /\ i > 1 => Lt(history[i - 1].x, history[i].x)
            /\ pc = "returned" =>
                  /\ Len(result.history) = N
                  /\ result.history = history
                  /\ result.iterations = N
                  /\ history[1].x = a
                  /\ history[N].x = b

C6_Witness ==
    /\ Returned("passive_search")
    /\ par.samples.n = MaxSamples
    /\ Len(result.history) = MaxSamples

\* C7: passive_search returns the record of lowest index among those of
\* minimal f.
C7_FirstMinimum ==
    Returned("passive_search") =>
        \E idx \in 1..Len(result.history) :
            /\ result.x_min = result.history[idx].x
            /\ result.f_min = result.history[idx].f
            /\ \A j \in 1..Len(result.history) : Le(result.f_min, result.history[j].f)
            /\ \A j \in 1..(idx - 1) : Lt(result.f_min, result.history[j].f)

\* two records share the minimal value
C7_Witness ==
    /\ Returned("passive_search")
    /\ \E i, j \in 1..Len(result.history) :
          /\ i < j
          /\ result.history[i].f = result.f_min
          /\ result.history[j].f = result.f_min

\* a validation failure: raised with nothing evaluated and nothing recorded
FailedAtEntry ==
    /\ pc = "raised"
    /\ evals = NoEvals
    /\ history = <<>>
    /\ result = None

\* C8: an interval method fails exactly when one of its validation
\* conditions holds, with the kind of a condition that holds, at entry:
\* nothing evaluated, no history, no result.
C8_FailFast ==
    LET a == par.bounds.a
        b == par.bounds.b
        badBounds == ~Lt(a, b)
        badTol == Sign(par.tol) <= 0
        badSamples == par.samples.n < 2
        badDelta == IF par.delta = None THEN Sign(Div(par.tol, Z(2))) <= 0
                    ELSE Sign(par.delta) <= 0
        kinds == {"InvalidBounds", "InvalidSampleCount", "InvalidTolerance", "InvalidDelta"}
    IN  /\ Running("passive_search") =>
              /\ (badBounds \/ badSamples) <=> error # ""
              /\ error # "" => FailedAtEntry /\ error \in kinds
              /\ error = "InvalidBounds" => badBounds
              /\ error = "InvalidSampleCount" => badSamples
              /\ error \notin {"InvalidTolerance", "InvalidDelta"}
        /\ Running("dichotomy") =>
              /\ (badBounds \/ badTol \/ badDelta) <=> error # ""
              /\ error # "" => FailedAtEntry /\ error \in kinds
              /\ error = "InvalidBounds" => badBounds
              /\ error = "InvalidTolerance" => badTol
              /\ error = "InvalidDelta" => badDelta
              /\ error # "InvalidSampleCount"
        /\ Running("golden_section") =>
              /\ (badBounds \/ badTol) <=> error # ""
              /\ error # "" => FailedAtEntry /\ error \in kinds
              /\ error = "InvalidBounds" => badBounds
              /\ error = "InvalidTolerance" => badTol
              /\ error \notin {"InvalidSampleCount", "InvalidDelta"}

\* dichotomy rejected a zero tolerance although delta was positive
C8_Witness ==
    /\ Running("dichotomy")
    /\ error = "InvalidTolerance"
    /\ par.delta # None
    /\ Sign(par.delta) > 0

\* C9: newton_tangent without d2f fails with MissingSecondDerivative before
\* the first pass: f, df are not evaluated and no record exists.
C9_MissingSecondDerivative ==
    Running("newton_tangent") /\ ~par.d2f =>
        /\ pc = "raised"
        /\ error = "MissingSecondDerivative"
        /\ evals = NoEvals
        /\ history = <<>>
        /\ result = None

C9_Witness ==
    /\ entry = "newton_tangent"
    /\ ~args.d2f
    /\ args.max_iter > 0
    /\ pc = "raised"

\* the record of an iterate with d2f(x) = 0 and |df(x)| >= tol
DegenerateRecord(r) == IsZero(r.d2f) /\ ~Lt(Abs(r.df), par.tol)

\* C10: newton_tangent fails with DegenerateCurvature, without a result,
\* exactly when the iterate just recorded has d2f = 0 and |df| >= tol; an
\* iterate with |df| < tol ends the run without failure, d2f = 0 or not.
C10_DegenerateCurvature ==
    Running("newton_tangent") /\ par.d2f =>
        /\ error \in {"", "DegenerateCurvature"}
        /\ error = "DegenerateCurvature" <=>
              Len(history) > 0 /\ DegenerateRecord(Last(history))
        /\ error = "DegenerateCurvature" => pc = "raised" /\ result = None
        /\ \A i \in 1..(Len(history) - 1) : ~DegenerateRecord(history[i])
        /\ Len(history) > 0 /\ Lt(Abs(Last(history).df), par.tol) =>
              /\ error = ""
              /\ pc = "returned" \/ (pc = "newton_tangent" /\ loc.stop)
              /\ loc.x = Last(history).x

\* the second iterate was the degenerate one
C10_Witness ==
    /\ Running("newton_tangent")
    /\ error = "DegenerateCurvature"
    /\ Len(history) = 2

\* ------------------------------------------------------------ C11 .. C20
\* C11: newton_tangent makes at most max_iter passes, one record each; a
\* Result has iterations = len(history) <= max_iter, and the only failure is
\* DegenerateCurvature (a spent budget is not one).
C11_NewtonBounded ==
    Running("newton_tangent") /\ par.d2f =>
        /\ Len(history) = loc.k
        /\ Len(history) <= par.max_iter
        /\ error \in {"", "DegenerateCurvature"}
        /\ pc = "returned" =>
              /\ result.iterations = Len(result.history)
              /\ result.history = history
              /\ result.iterations <= par.max_iter
        /\ pc = "raised" => DegenerateRecord(Last(history))

\* the budget was spent without either convergence test succeeding
C11_Witness ==
    /\ Returned("newton_tangent")
    /\ ~loc.stop
    /\ par.max_iter >= 2
    /\ result.iterations = par.max_iter

\* f(x) = c(x - s)^2 + k with c > 0, its vertex s and its minimum k
ConvexQuadratic(f) == f.c3 = 0 /\ f.c2 > 0

Vertex(f) == Rat(-f.c1, 2 * f.c2)

MinValue(f) == Rat(4 * f.c2 * f.c0 - f.c1 * f.c1, 4 * f.c2)

NewtonOnQuadratic ==
    /\ Returned("newton_tangent")
    /\ ConvexQuadratic(par.f)
    /\ ~Lt(Abs(DF(par.f, par.x0)), par.tol)
    /\ par.max_iter >= 2

QuadraticSolved(iterations) ==
    /\ result.x_min = Vertex(par.f)
    /\ result.f_min = MinValue(par.f)
    /\ result.iterations <= iterations

\* C12 as stated: on a convex quadratic, from x0 with |df(x0)| >= tol and
\* with max_iter >= 2, newton_tangent returns (s, k) in at most 5 iterations.
C12_QuadraticAnyTol == NewtonOnQuadratic => QuadraticSolved(5)

\* C12 amended: the same for tol > 0.
C12_QuadraticPositiveTol ==
    NewtonOnQuadratic /\ Sign(par.tol) > 0 => QuadraticSolved(5)

\* the second iterate stopped on the gradient test
C12_Witness ==
    /\ NewtonOnQuadratic
    /\ Sign(par.tol) > 0
    /\ result.iterations = 2
    /\ IsZero(Last(result.history).df)
    /\ result.history[1].x # result.x_min

SecantOnQuadratic ==
    /\ Returned("secant_on_gradient")
    /\ ConvexQuadratic(par.f)
    /\ par.x0 # par.x1

InteriorKeys == {"a", "b", "x1", "x2", "f1", "f2"}

FinalKeys == {"a", "b", "x", "f"}

\* C14: a Result of dichotomy or golden_section has iterations <= max_iter
\* interior records followed by one final record at the midpoint of the
\* final interval, which is (x_min, f_min); with max_iter = 0 that is the
\* midpoint of the original interval.
C14_HistoryShape ==
    pc = "returned" /\ result.method \in {"dichotomy", "golden_section"} =>
        LET h == result.history
            n == result.iterations
            last == Last(h)
        IN  /\ Len(h) = n + 1
            /\ n <= par.max_iter
            /\ n = loc.iterations
            /\ \A i \in 1..n : DOMAIN h[i] = InteriorKeys
            /\ n >= 1 => h[1].a = par.bounds.a /\ h[1].b = par.bounds.b
            /\ DOMAIN last = FinalKeys
            /\ last.a = loc.a /\ last.b = loc.b
            /\ Mul(Z(2), last.x) = Add(last.a, last.b)
            /\ last.x = result.x_min
            /\ last.f = result.f_min
            /\ last.f = F(par.f, last.x)
            /\ par.max_iter = 0 =>
                  /\ n = 0
                  /\ Mul(Z(2), result.x_min) = Add(par.bounds.a, par.bounds.b)

C14_Witness ==
    /\ pc = "returned"
    /\ result.method = "golden_section"
    /\ result.iterations = 2
    /\ Len(result.history) = 3

\* ---------------------------------------------------------------- C16
Width(r) == Sub(r.b, r.a)

\* the records of a history that a narrowing step wrote
Interior(hist) == {i \in 1..Len(hist) : "x1" \in DOMAIN hist[i]}

\* the interval a step left behind: the next record's, or the current one
After(i) == IF i < Len(history) THEN history[i + 1] ELSE loc

\* C16: every narrowing step of dichotomy maps the width w to w/2 + delta;
\* with delta >= tol/2 and a start wider than tol the loop ends only with the
\* budget: iterations = max_iter and the final interval is wider than tol.
C16_WidthMap ==
    Running("dichotomy") /\ pc # "raised" =>
        /\ \A i \in Interior(history) :
              Width(After(i)) = Add(Div(Width(history[i]), Z(2)), loc.delta)
        /\ /\ pc = "returned"
           /\ Le(Div(par.tol, Z(2)), loc.delta)
           /\ Gt(Width(par.bounds), par.tol)
           => /\ result.iterations = par.max_iter
              /\ Gt(Width(Last(result.history)), par.tol)

C16_Witness ==
    /\ Returned("dichotomy")
    /\ par.delta = None
    /\ Gt(Width(par.bounds), par.tol)
    /\ result.iterations = par.max_iter
    /\ par.max_iter >= 2

\* ---------------------------------------------------------------- C17
\* C17: each narrowing step of dichotomy probes m - delta and m + delta around
\* the midpoint m of the interval it records, and then moves one endpoint:
\* b to x2 when f(x1) < f(x2), else (a tie included) a to x1; the other
\* endpoint stays.
C17_StepEffect ==
    Running("dichotomy") /\ pc # "raised" =>
        \A i \in Interior(history) :
            LET r == history[i]
                m == Div(Add(r.a, r.b), Z(2))
                n == After(i)
            IN  /\ i = 1 => r.a = par.bounds.a /\ r.b = par.bounds.b
                /\ r.x1 = Sub(m, loc.delta)
                /\ r.x2 = Add(m, loc.delta)
                /\ r.f1 = F(par.f, r.x1)
                /\ r.f2 = F(par.f, r.x2)
                /\ IF Lt(r.f1, r.f2)
                     THEN n.b = r.x2 /\ n.a = r.a
                     ELSE n.a = r.x1 /\ n.b = r.b

C17_Witness ==
    /\ Running("dichotomy")
    /\ Len(history) >= 3
    /\ history[1].f1 = history[1].f2
    /\ history[2].a = history[1].x1
    /\ Lt(history[2].f1, history[2].f2)
    /\ history[3].b = history[2].x2

\* ---------------------------------------------------------------- C18
\* the factor phi - 1 of one iteration
Shrink == Sub(phi, Z(1))

RECURSIVE Pow(_, _)
Pow(u, k) == IF k = 0 THEN Z(1) ELSE Mul(u, Pow(u, k - 1))

\* the iterations a run makes, from the width, tol and the budget alone
RECURSIVE GoldenCount(_, _, _)
GoldenCount(w, tol, budget) ==
    IF ~Gt(w, tol) \/ budget = 0 THEN 0
    ELSE 1 + GoldenCount(Mul(Shrink, w), tol, budget - 1)

\* C18: every iteration of golden_section multiplies the width by phi - 1,
\* so after k iterations it is (phi - 1)^k times the initial width, and the
\* number of iterations of a run is fixed by the bounds, tol and max_iter,
\* whatever the objective.
C18_ConstantShrink ==
    Running("golden_section") /\ pc # "raised" =>
        /\ \A i \in 1..Len(history) :
              Width(history[i]) =
                  Mul(Pow(Shrink, i - 1),
                      Width(par.bounds))
        /\ Width(loc) = Mul(Pow(Shrink, loc.iterations), Width(par.bounds))
        /\ pc = "returned" =>
              result.iterations = GoldenCount(Width(par.bounds), par.tol, par.max_iter)

C18_Witness ==
    /\ Returned("golden_section")
    /\ result.iterations = 3
    /\ ~Lt(result.history[1].f1, result.history[1].f2)
    /\ Lt(result.history[2].f1, result.history[2].f2)
    /\ Lt(Width(Last(result.history)), Width(result.history[3]))

\* ---------------------------------------------------------------- C19
\* the probes the next record, or the running loop, holds after record i
Probes(i) == IF i + 1 \in Interior(history) THEN history[i + 1] ELSE loc

\* C19: a run of golden_section evaluates f iterations + 3 times (two first
\* probes, one per iteration, the final midpoint); of two consecutive interior
\* records the later one takes over (x1, f1) as its (x2, f2) when f1 < f2 and
\* (x2, f2) as its (x1, f1) otherwise; every interior record has
\* a < x1 < x2 < b.
C19_OneEvaluationPerIteration ==
    Running("golden_section") /\ pc # "raised" =>
        /\ evals.f = loc.iterations + 2 + (IF pc = "returned" THEN 1 ELSE 0)
        /\ evals.df = 0 /\ evals.d2f = 0
        /\ pc = "returned" => evals.f = result.iterations + 3
        /\ \A i \in Interior(history) :
              LET r == history[i]
                  n == Probes(i)
              IN  /\ Lt(r.a, r.x1) /\ Lt(r.x1, r.x2) /\ Lt(r.x2, r.b)
                  /\ IF Lt(r.f1, r.f2)
                       THEN n.x2 = r.x1 /\ n.f2 = r.f1
                       ELSE n.x1 = r.x2 /\ n.f1 = r.f2

C19_Witness ==
    /\ Returned("golden_section")
    /\ result.iterations = 2
    /\ evals.f = 5
    /\ ~Lt(result.history[1].f1, result.history[1].f2)
    /\ result.history[2].x1 = result.history[1].x2

\* ---------------------------------------------------------------- C20
\* the gradients of the two seeds do not differ
SeedsVanish == DenominatorVanishes(history[2].g, history[1].g)

\* C20: secant_on_gradient raises nothing; its history starts with the records
\* of x0 and x1; no step divides by a vanishing difference of gradients, and
\* when the difference vanishes before the first step the Result is the
\* current point x1; a Result has iterations = len(history), from 2 to
\* max_iter + 2.
C20_SilentStop ==
    Running("secant_on_gradient") =>
        /\ pc # "raised" /\ error = ""
        /\ Len(history) >= 2
        /\ history[1] = [x |-> par.x0, g |-> grad(par.f, par.df, par.h_fd, par.x0),
                         f |-> F(par.f, par.x0)]
        /\ history[2] = [x |-> par.x1, g |-> grad(par.f, par.df, par.h_fd, par.x1),
                         f |-> F(par.f, par.x1)]
        /\ \A i \in 3..Len(history) :
              ~DenominatorVanishes(history[i - 1].g, history[i - 2].g)
        /\ SeedsVanish => Len(history) = 2
        /\ pc = "returned" =>
              /\ result.iterations = Len(result.history)
              /\ result.history = history
              /\ 2 <= result.iterations
              /\ result.iterations <= par.max_iter + 2
              /\ result.x_min = Last(result.history).x
              /\ result.f_min = Last(result.history).f

C20_Witness ==
    /\ Returned("secant_on_gradient")
    /\ par.x0 = par.x1
    /\ par.max_iter >= 1
    /\ loc.stop
    /\ result.iterations = 2
    /\ result.x_min = par.x1

\* ---------------------------------------------------------------- C21
\* C21: a sample count given to auto_select_and_run reaches passive_search
\* unchanged, in forced mode (prefer = "passive") and in automatic mode
\* alike, so a given count below 2 (0 included) fails with
\* InvalidSampleCount; only an absent count becomes 50, in forced mode.
C21_SamplesForwarded ==
    entry = "auto_select_and_run" /\ Running("passive_search") =>
        IF args.samples # None
          THEN /\ par.samples = args.samples
               /\ args.samples.n < 2 => pc = "raised" /\ error = "InvalidSampleCount"
          ELSE /\ args.prefer = "passive"
               /\ par.samples = Count(DEFAULT_SAMPLES)

\* ---------------------------------------------------------------- C22
\* the point one Newton step beyond record r
StepBeyond(r) == Sub(r.x, Div(r.df, r.d2f))

\* what every Result of newton_tangent has: f_min = f(x_min); no record, no
\* pass: x_min = x0; a last record with |df| < tol: x_min is its x; any
\* other last record: x_min is one step beyond it
NewtonResultShape ==
    /\ result.f_min = F(par.f, result.x_min)
    /\ result.iterations = Len(result.history)
    /\ par.max_iter = 0 =>
          result.history = <<>> /\ result.iterations = 0 /\ result.x_min = par.x0
    /\ result.history # <<>> =>
          LET r == Last(result.history)
          IN  IF Lt(Abs(r.df), par.tol)
                THEN result.x_min = r.x
                ELSE result.x_min = StepBeyond(r)

\* the Result came from a step: it stopped on the step size or on the budget
SteppedOut ==
    /\ Returned("newton_tangent")
    /\ result.history # <<>>
    /\ ~Lt(Abs(Last(result.history).df), par.tol)

\* C22 as stated: after a stop on the step size or on a spent budget
\* max_iter >= 1, x_min is one step beyond the last record and is never the
\* x of that record.
C22_BeyondNeverLast ==
    Returned("newton_tangent") =>
        /\ NewtonResultShape
        /\ SteppedOut => result.x_min # Last(result.history).x

\* C22: in every Result of newton_tangent f_min = f(x_min); after a stop on
\* the gradient test x_min is the x of the last record; after a stop on the
\* step size or on a spent budget max_iter >= 1 it is one Newton step beyond
\* the last record, and differs from that record's x exactly when the
\* record's df is not zero; with max_iter = 0 the history is empty and
\* x_min = x0.
C22_BeyondUnlessStationary ==
    Returned("newton_tangent") =>
        /\ NewtonResultShape
        /\ SteppedOut =>
              (result.x_min # Last(result.history).x
                  <=> ~IsZero(Last(result.history).df))

C22_Witness ==
    /\ SteppedOut
    /\ loc.stop
    /\ result.iterations < par.max_iter
    /\ result.x_min = StepBeyond(Last(result.history))
    /\ result.x_min # Last(result.history).x
====
